---- MODULE Spec2Model ----
(***************************************************************************)
(* Recommendation pipeline of the solar-equipment backend                  *)
(* (src/models/RecommendationRequest.js): the two validators, the history  *)
(* recorder and the POST / handler that composes them.                     *)
(*                                                                         *)
(* Conventions.                                                            *)
(*  - A JavaScript value that the code uses as a number is a record        *)
(*    [t, v]: t is its type ("number", "undefined", "null", "string"), v   *)
(*    the number (0 otherwise).  "string" stands for a non-empty string    *)
(*    that is not numeric, such as "N/A"; "undefined" is a missing field.  *)
(*  - An amount is in naira; a wattage in watts.                           *)
(*  - dailyConsumption, which the code keeps as a decimal string with two  *)
(*    fraction digits (toFixed(2)), is its value in hundredths of a kWh:   *)
(*    "3.60" is 360.  parseFloat of that string is the same number.        *)
(***************************************************************************)
EXTENDS Integers, Sequences, FiniteSets, TLC

VARIABLES
    fcall,      \* a direct call of one of the two validators: arguments and result
    req,        \* the POST / request being handled: position, inputs, locals, response
    frame,      \* the invocations of saveRecommendationToHistory, one per frame
    store,      \* the user store: recommendationHistory of each user document
    saved,      \* per user, the entries of the saves that succeeded, in order (ghost)
    started,    \* per user, how many saves were started (ghost)
    served,     \* how many requests the handler has received (ghost)
    clock       \* the last value Date.now() returned

vars == <<fcall, req, frame, store, saved, started, served, clock>>

(***************************************************************************)
(* JavaScript values                                                       *)
(***************************************************************************)
Num(n) == [t |-> "number", v |-> n]
Undefined == [t |-> "undefined", v |-> 0]
Null == [t |-> "null", v |-> 0]
Str == [t |-> "string", v |-> 0]

\* ToNumber(x) is NaN: undefined and a non-numeric string convert to NaN, null to 0.
IsNaN(x) == x.t \in {"undefined", "string"}
\* ToNumber(x) when it is not NaN.
ToNumber(x) == IF x.t = "number" THEN x.v ELSE 0
\* x.toLocaleString() throws a TypeError: x is undefined or null.
NoMethods(x) == x.t \in {"undefined", "null"}
\* JavaScript truthiness of a value used as a number field.
Truthy(x) == (x.t = "number" /\ x.v # 0) \/ x.t = "string"

\* a < b and a > b on numbers, false as soon as one side is NaN
Lt(a, b) == ~IsNaN(a) /\ ~IsNaN(b) /\ ToNumber(a) < ToNumber(b)
Gt(a, b) == Lt(b, a)

Abs(n) == IF n < 0 THEN 0 - n ELSE n
Max(a, b) == IF a > b THEN a ELSE b
Min(a, b) == IF a < b THEN a ELSE b
\* Math.ceil(n / d) for n >= 0, d > 0
CeilDiv(n, d) == (n + d - 1) \div d

(***************************************************************************)
(* validatePricing (lines 319-397)                                         *)
(***************************************************************************)
MaxPricePerWatt == 3000
MinPricePerWatt == 1000
QualityPricePerWatt == 1200
QualityConsumption == 3000          \* 30 kWh, in hundredths
MaxSystemCost == 12000000
LowCostThreshold == 2000000
LowCostConsumption == 2500          \* 25 kWh, in hundredths
MinimumSystemCost == 1500000
VatTolerance == 1000
TotalTolerance == 1000

\* Math.round(subtotal * 0.075), subtotal a number >= 0: 0.075 = 3/40, and
\* Math.round rounds a half up.
ExpectedVAT(subtotal) == (3 * subtotal + 20) \div 40

\* Math.max(1500000, totalWattage * 1000)
MinimumViableSystemCost(totalWattage) == Max(MinimumSystemCost, totalWattage * 1000)

\* The rules of validatePricing in the order of the code, each with the
\* beginning of the issue it pushes.  pricePerWatt = totalAmount / totalWattage
\* is compared by cross-multiplication (totalWattage > 0).
PricePerWattTooHigh(p, w) ==
    ~IsNaN(p.totalAmount) /\ ToNumber(p.totalAmount) > MaxPricePerWatt * w
PricePerWattTooLow(p, w) ==
    ~IsNaN(p.totalAmount) /\ ToNumber(p.totalAmount) < MinPricePerWatt * w
PriceLowForConsumption(p, w, dc) ==
    /\ ~IsNaN(p.totalAmount) /\ ToNumber(p.totalAmount) < QualityPricePerWatt * w
    /\ dc > QualityConsumption
CostVeryHigh(p) == Gt(p.totalAmount, Num(MaxSystemCost))
CostSeemsTooLow(p, dc) ==
    Lt(p.totalAmount, Num(LowCostThreshold)) /\ dc > LowCostConsumption
CostTooLow(p, w) == Lt(p.totalAmount, Num(MinimumViableSystemCost(w)))
VatIncorrect_AtTolerance(p) ==
    /\ ~IsNaN(p.vat) /\ ~IsNaN(p.subtotal)
    /\ Abs(ToNumber(p.vat) - ExpectedVAT(ToNumber(p.subtotal))) >= VatTolerance
VatIncorrect(p) ==
    /\ ~IsNaN(p.vat) /\ ~IsNaN(p.subtotal)
    /\ Abs(ToNumber(p.vat) - ExpectedVAT(ToNumber(p.subtotal))) > VatTolerance
TotalIncorrect(p) ==
    /\ ~IsNaN(p.totalAmount) /\ ~IsNaN(p.subtotal) /\ ~IsNaN(p.vat)
    /\ Abs(ToNumber(p.totalAmount) - (ToNumber(p.subtotal) + ToNumber(p.vat)))
           > TotalTolerance

Issue(cond, text) == IF cond THEN <<text>> ELSE <<>>

PricingIssues(p, w, dc) ==
       Issue(PricePerWattTooHigh(p, w), "Price per watt too high")
    \o Issue(PricePerWattTooLow(p, w), "Price per watt too low")
    \o Issue(PriceLowForConsumption(p, w, dc), "System price may be too low")
    \o Issue(CostVeryHigh(p), "System cost very high")
    \o Issue(CostSeemsTooLow(p, dc), "System cost seems too low")
    \o Issue(CostTooLow(p, w), "System cost too low")
    \o Issue(VatIncorrect(p), "VAT calculation incorrect")
    \o Issue(TotalIncorrect(p), "Total amount calculation incorrect")

\* validatePricing throws a TypeError instead of returning: pricing itself is
\* missing (line 323), or totalAmount.toLocaleString() is evaluated on null or
\* undefined, in the message of a cost issue (lines 352, 358, 366) or in the
\* log line of the valid case (line 394).
PricingThrows(p, w, dc) ==
    \/ ~p.present
    \/ /\ NoMethods(p.totalAmount)
       /\ \/ CostVeryHigh(p) \/ CostSeemsTooLow(p, dc) \/ CostTooLow(p, w)
          \/ PricingIssues(p, w, dc) = <<>>

Threw == [threw |-> TRUE, valid |-> FALSE, issues |-> <<>>]
Report_FirstIssue(issues) ==
    [threw |-> FALSE, valid |-> issues = <<>>, issues |-> SubSeq(issues, 1, 1)]
Report(issues) == [threw |-> FALSE, valid |-> issues = <<>>, issues |-> issues]

validatePricing(p, w, dc) ==
    IF PricingThrows(p, w, dc) THEN Threw ELSE Report(PricingIssues(p, w, dc))

(***************************************************************************)
(* validateRecommendation (lines 400-467)                                  *)
(*                                                                         *)
(* An inverter name is [unit, watts]: unit "kW" is a name in which the     *)
(* pattern /(\d+(?:\.\d+)?)\s*kw/i finds a rating ("Growatt 5kW Hybrid"),  *)
(* "kVA" a name that states its rating in kVA ("Luminous 5KVA Pure Sine    *)
(* Wave Inverter"), "none" a name with no rating, "absent" a missing or    *)
(* non-string name; watts is the stated rating times 1000.                 *)
(***************************************************************************)
MaxBatteries == 25
MaxPanels == 30

\* components.inverter.name.match(...): the capacity in watts, or no match
InverterMatches(name) == name.unit = "kW"
InverterCapacityW(name) == name.watts

\* inverterCapacityW < totalWattage * 1.2, else-if > totalWattage * 2.0
InverterUndersized(name, w) ==
    InverterMatches(name) /\ 10 * InverterCapacityW(name) < 12 * w
InverterOversized(name, w) ==
    InverterMatches(name) /\ InverterCapacityW(name) > 2 * w

\* Math.ceil(parseFloat(dailyConsumption) * 1.5 / 2.5)
MaxReasonableBatteries(dc) == CeilDiv(3 * dc, 500)
\* Math.ceil(parseFloat(dailyConsumption) * 1.8 * 1000 / 400).  In doubles the
\* product can fall just short of an integer this formula reaches (26.00 gives
\* 118 there, 117 here); that happens only above the absolute ceiling MaxPanels.
MaxReasonablePanels(dc) == CeilDiv(9 * dc, 200)

TooManyBatteries(c, dc) == Gt(c.battery, Num(MaxReasonableBatteries(dc)))
ExcessiveBatteries(c) == Gt(c.battery, Num(MaxBatteries))
TooManyPanels(c, dc) == Gt(c.panels, Num(MaxReasonablePanels(dc)))
ExcessivePanels(c) == Gt(c.panels, Num(MaxPanels))

ComponentIssues(c, w, dc) ==
       Issue(InverterUndersized(c.inverter, w), "Inverter undersized")
    \o Issue(~InverterUndersized(c.inverter, w) /\ InverterOversized(c.inverter, w),
             "Inverter oversized")
    \o Issue(TooManyBatteries(c, dc), "Too many batteries")
    \o Issue(ExcessiveBatteries(c), "Excessive battery count")
    \o Issue(TooManyPanels(c, dc), "Too many panels")
    \o Issue(ExcessivePanels(c), "Excessive panel count")

\* components.inverter.name.match throws when the name is missing or no string
ComponentsThrow(c) == c.inverter.unit = "absent"

validateRecommendation(c, w, dc) ==
    IF ComponentsThrow(c) THEN Threw ELSE Report(ComponentIssues(c, w, dc))

(***************************************************************************)
(* The validators called directly, on arguments drawn from bounded sets    *)
(***************************************************************************)
NoCall == [fn |-> "none"]

NonNumbers == {Undefined, Null, Str}
Subtotals ==
    {Num(n) : n \in {300000, 1600000, 2000000, 3000000, 5000000, 27906977}}
        \cup NonNumbers
Vats ==
    {Num(n) : n \in {22500, 100000, 120000, 150000, 151000, 151001, 225000,
                     375000, 2093023}} \cup NonNumbers
Totals ==
    {Num(n) : n \in {322500, 1720000, 2150000, 2151000, 2151001, 3225000,
                     5100000, 5375000, 12000000, 30000000}} \cup NonNumbers
Pricings ==
    [present : {TRUE}, subtotal : Subtotals, vat : Vats, totalAmount : Totals]
Wattages == {150, 1000, 3000, 10000}
Consumptions == {360, 1000, 2600, 3150}

InverterNames ==
    {[unit |-> "kW", watts |-> n] : n \in {200, 1100, 1200, 2000, 2100, 5000, 12000}}
        \cup {[unit |-> "kVA", watts |-> 5000], [unit |-> "none", watts |-> 0],
              [unit |-> "absent", watts |-> 0]}
BatteryQuantities == {Num(n) : n \in {3, 4, 6, 7, 16, 19, 25, 26}} \cup NonNumbers
PanelQuantities == {Num(n) : n \in {17, 18, 20, 30, 31, 40, 45, 46}} \cup NonNumbers
Components ==
    [inverter : InverterNames, battery : BatteryQuantities, panels : PanelQuantities]

NoRequest == [pc |-> "idle"]
NoFrame == [pc |-> "idle"]
Users == {"u1", "u2"}
Frames == {"f1", "f2"}

Quiet ==
    /\ req = NoRequest
    /\ frame = [f \in Frames |-> NoFrame]
    /\ store = [u \in Users |-> <<>>]
    /\ saved = [u \in Users |-> <<>>]
    /\ started = [u \in Users |-> 0]
    /\ served = 0
    /\ clock = 0

InitPricing ==
    /\ fcall \in [fn : {"validatePricing"}, pricing : Pricings, w : Wattages,
                  dc : Consumptions, done : {FALSE}, ret : {Threw}]
    /\ Quiet

CallValidatePricing ==
    /\ fcall.fn = "validatePricing" /\ ~fcall.done
    /\ fcall' = [fcall EXCEPT !.done = TRUE,
                              !.ret = validatePricing(fcall.pricing, fcall.w, fcall.dc)]
    /\ UNCHANGED <<req, frame, store, saved, started, served, clock>>

SpecPricing == InitPricing /\ [][CallValidatePricing]_vars

InitSizing ==
    /\ fcall \in [fn : {"validateRecommendation"}, components : Components,
                  w : Wattages, dc : Consumptions, done : {FALSE}, ret : {Threw}]
    /\ Quiet

CallValidateRecommendation ==
    /\ fcall.fn = "validateRecommendation" /\ ~fcall.done
    /\ fcall' = [fcall EXCEPT !.done = TRUE,
                   !.ret = validateRecommendation(fcall.components, fcall.w, fcall.dc)]
    /\ UNCHANGED <<req, frame, store, saved, started, served, clock>>

SpecSizing == InitSizing /\ [][CallValidateRecommendation]_vars

(***************************************************************************)
(* saveRecommendationToHistory (lines 851-915)                             *)
(*                                                                         *)
(* One invocation is a frame.  It awaits twice, User.findById (line 858)   *)
(* and user.save() (line 906); what runs between two awaits is one step.   *)
(* The document findById returns is a copy of the stored one, and save     *)
(* writes the copy's recommendationHistory back.                           *)
(***************************************************************************)
MaxHistory == 10
MaxSaves == 12

NoUser == "none"

\* lines 896-904: push the entry, shift the oldest one out when more than 10
PushAndTrim_DropsNewest(history, entry) ==
    IF Len(history) >= MaxHistory THEN history ELSE Append(history, entry)
PushAndTrim(history, entry) ==
    LET pushed == Append(history, entry)
    IN  IF Len(pushed) > MaxHistory THEN Tail(pushed) ELSE pushed

\* lines 865-893: the entry built from recommendationData
HistoryEntry(requestId) == [requestId |-> requestId]
RequestId(ms, suffix) == [ms |-> ms, suffix |-> suffix]

NewFrame(userId, entry, via) ==
    [pc |-> "find", userId |-> userId, entry |-> entry, doc |-> <<>>, via |-> via]

TotalStarted == started["u1"] + started["u2"]

\* lines 851-855: the call; a null userId returns at once
Invoke(f, userId, entry, via) ==
    frame' = [frame EXCEPT ![f] =
                 IF userId = NoUser
                 THEN [NewFrame(userId, entry, via) EXCEPT !.pc = "skipped"]
                 ELSE NewFrame(userId, entry, via)]

\* a direct call, with a request id not used before for this user
DirectCall(f, u) ==
    /\ frame[f].pc = "idle"
    /\ Invoke(f, u, HistoryEntry(RequestId(started[u] + 1, u)), "direct")
    /\ started' = [started EXCEPT ![u] = @ + 1]
    /\ UNCHANGED <<fcall, req, store, saved, served, clock>>

\* direct calls executed one after another
CallSequential(f) ==
    /\ \A g \in Frames : frame[g].pc = "idle"
    /\ TotalStarted < MaxSaves
    /\ \E u \in Users : DirectCall(f, u)

\* two direct calls that may overlap, one per frame
CallConcurrent(f) == \E u \in Users : DirectCall(f, u)

\* lines 858-904: findById resolves (or rejects), then the entry is pushed
FindUser(f) ==
    /\ frame[f].pc = "find"
    /\ \E outcome \in {"found", "missing", "error"} :
          frame' = [frame EXCEPT ![f] =
              CASE outcome = "found" ->
                       [frame[f] EXCEPT
                           !.pc = "save",
                           !.doc = PushAndTrim(store[frame[f].userId], frame[f].entry)]
                [] outcome = "missing" -> [frame[f] EXCEPT !.pc = "returned"]
                [] OTHER -> [frame[f] EXCEPT !.pc = "threw"]]
    /\ UNCHANGED <<fcall, req, store, saved, started, served, clock>>

\* lines 906-914: save resolves, or rejects and the catch rethrows
SaveUser(f) ==
    /\ frame[f].pc = "save"
    /\ \/ /\ frame' = [frame EXCEPT ![f].pc = "saved"]
          /\ store' = [store EXCEPT ![frame[f].userId] = frame[f].doc]
          /\ saved' = [saved EXCEPT ![frame[f].userId] = Append(@, frame[f].entry)]
       \/ /\ frame' = [frame EXCEPT ![f].pc = "threw"]
          /\ UNCHANGED <<store, saved>>
    /\ UNCHANGED <<fcall, req, started, served, clock>>

FrameOver(f) == frame[f].pc \in {"skipped", "returned", "saved", "threw"}

\* the direct caller takes the result; the frame is gone
Return(f) ==
    /\ FrameOver(f) /\ frame[f].via = "direct"
    /\ frame' = [frame EXCEPT ![f] = NoFrame]
    /\ UNCHANGED <<fcall, req, store, saved, started, served, clock>>

Init == fcall = NoCall /\ Quiet

NextSeq == \E f \in Frames : CallSequential(f) \/ FindUser(f) \/ SaveUser(f) \/ Return(f)
SpecSeq == Init /\ [][NextSeq]_vars

\* the history k earlier saves of user u have left: the last MaxHistory of them
Earlier(u, k) == [i \in 1..k |-> HistoryEntry(RequestId(i, u))]
LastOf(entries, n) ==
    SubSeq(entries, Len(entries) - Min(Len(entries), n) + 1, Len(entries))

\* two overlapping calls, on histories that earlier saves have left
InitConc ==
    /\ fcall = NoCall /\ req = NoRequest /\ served = 0 /\ clock = 0
    /\ frame = [f \in Frames |-> NoFrame]
    /\ \E k \in [Users -> 0..MaxSaves] :
          /\ started = k
          /\ saved = [u \in Users |-> Earlier(u, k[u])]
          /\ store = [u \in Users |-> LastOf(Earlier(u, k[u]), MaxHistory)]

NextConc == \E f \in Frames : CallConcurrent(f) \/ FindUser(f) \/ SaveUser(f)
SpecConc == InitConc /\ [][NextConc]_vars

(***************************************************************************)
(* Location Resolver and Environmental Data Provider (lines 70-316)        *)
(*                                                                         *)
(* A coordinate is in ten-thousandths of a degree (0: absent, which is     *)
(* falsy like 0), a text field is "" when absent, sunlight hours are in    *)
(* hundred-thousandths of an hour.  The replies of the stored-address      *)
(* lookup, of ip-api.com, of Nominatim and of the weather API are inputs.  *)
(***************************************************************************)
Location(city, region, country, lat, lon) ==
    [city |-> city, region |-> region, country |-> country, lat |-> lat, lon |-> lon,
     district |-> "", fullAddress |-> "", addressSource |-> "", addressAccuracy |-> ""]

\* lines 121-128 and 155-162
DefaultLocation == Location("Lagos", "Lagos", "Nigeria", 65244, 33792)
\* lines 137-146, for a reply of ip-api.com that locates the caller in Abuja
IpLocation ==
    [Location("Abuja", "FCT", "Nigeria", 90765, 74986) EXCEPT !.district = "Garki"]
\* lines 86-104, for a stored address with coordinates
StoredLocation ==
    [Location("Kano", "Kano", "Nigeria", 120022, 85920) EXCEPT
        !.fullAddress = "3 Zoo Road, Kano", !.addressSource = "user_stored",
        !.addressAccuracy = "exact"]

JoinNonEmpty(parts) ==
    LET kept == SelectSeq(parts, LAMBDA x : x # "")
        Join[i \in 0..Len(kept)] ==
            IF i = 0 THEN ""
            ELSE IF i = 1 THEN kept[1]
            ELSE Join[i - 1] \o ", " \o kept[i]
    IN  Join[Len(kept)]

\* lines 259-268
generateFallbackAddress(location) ==
    LET joined == JoinNonEmpty(<<location.district, location.city, location.region,
                                 location.country>>)
    IN  IF joined = "" THEN "Address not available" ELSE joined

GeoReplies == {"address", "unnamed", "noAddress", "error"}

enhanceLocationWithAddress_Relocates(baseLocation, geoReply) ==
    IF baseLocation.fullAddress # "" THEN baseLocation
    ELSE IF baseLocation.lat # 0 /\ baseLocation.lon # 0
            /\ geoReply \in {"address", "unnamed"}
    THEN [baseLocation EXCEPT
            !.city = "Lagos Island",
            !.fullAddress = IF geoReply = "address"
                            THEN "Marina Road, Lagos Island" ELSE "",
            !.addressSource = "nominatim", !.addressAccuracy = "approximate"]
    ELSE [baseLocation EXCEPT
            !.fullAddress = generateFallbackAddress(baseLocation),
            !.addressSource = "estimated", !.addressAccuracy = "city-level"]

\* lines 169-256; geoReply is Nominatim's: an address with a road and a city,
\* an address object with none of the components the code reads, a reply
\* without address, or a failed call
enhanceLocationWithAddress(baseLocation, geoReply) ==
    IF baseLocation.fullAddress # "" THEN baseLocation
    ELSE IF baseLocation.lat # 0 /\ baseLocation.lon # 0
            /\ geoReply \in {"address", "unnamed"}
    THEN [baseLocation EXCEPT
            !.fullAddress = IF geoReply = "address"
                            THEN "Marina Road, " \o baseLocation.city ELSE "",
            !.addressSource = "nominatim", !.addressAccuracy = "approximate"]
    ELSE [baseLocation EXCEPT
            !.fullAddress = generateFallbackAddress(baseLocation),
            !.addressSource = "estimated", !.addressAccuracy = "city-level"]

Loopback(ip) == ip \in {"127.0.0.1", "::1", "::ffff:127.0.0.1"}

\* lines 70-166
getLocationData(bodyLocation, user, storedReply, ip, ipReply, geoReply) ==
    IF bodyLocation.given THEN enhanceLocationWithAddress(bodyLocation.location, geoReply)
    ELSE IF user # NoUser /\ storedReply = "stored" THEN StoredLocation
    ELSE IF Loopback(ip) THEN enhanceLocationWithAddress(DefaultLocation, geoReply)
    ELSE IF ipReply = "success" THEN enhanceLocationWithAddress(IpLocation, geoReply)
    ELSE enhanceLocationWithAddress(DefaultLocation, geoReply)

\* the stored-address lookup (lines 81-82): an address with coordinates, one
\* without, no address, or a failed lookup; ip-api.com (lines 134-152): status
\* success, another status, a failed call, or a reply without data
StoredReplies == {"stored", "noCoordinates", "none", "error"}
IpReplies == {"success", "fail", "error", "malformed"}

\* the location getLocationData starts from, before any enrichment
SourceLocation(bodyLocation, user, storedReply, ip, ipReply) ==
    IF bodyLocation.given THEN bodyLocation.location
    ELSE IF user # NoUser /\ storedReply = "stored" THEN StoredLocation
    ELSE IF Loopback(ip) THEN DefaultLocation
    ELSE IF ipReply = "success" THEN IpLocation
    ELSE DefaultLocation

\* a reply the caller can use, or a failure: an exception, an error status or a
\* malformed reply
Outcome(reply) ==
    IF reply \in {"error", "fail", "malformed", "noAddress"} THEN "failed" ELSE "ok"

\* the services getLocationData calls, each with the outcome of the call
LocationCalls(bodyLocation, user, storedReply, ip, ipReply, geoReply) ==
    LET usesStored == ~bodyLocation.given /\ user # NoUser
        stored == usesStored /\ storedReply = "stored"
        usesIp == ~bodyLocation.given /\ ~stored /\ ~Loopback(ip)
        source == SourceLocation(bodyLocation, user, storedReply, ip, ipReply)
        usesGeo == ~stored /\ source.fullAddress = "" /\ source.lat # 0
                      /\ source.lon # 0
    IN  (IF usesStored THEN {<<"userStore", Outcome(storedReply)>>} ELSE {})
            \cup (IF usesIp THEN {<<"ip-api", Outcome(ipReply)>>} ELSE {})
            \cup (IF usesGeo THEN {<<"nominatim", Outcome(geoReply)>>} ELSE {})

Clamp(lo, x, hi) == Max(lo, Min(hi, x))
\* lines 311-316: 6.5 + (latitude - 9) * 0.1 clamped to [5.0, 8.0]
calculateSunlightHours(lat) == Clamp(500000, 650000 + (lat - 90000), 800000)

Solar(sun, cloud, humidity) ==
    [averageSunlightHours |-> sun, cloudCover |-> cloud, humidity |-> humidity]

\* lines 287-301: the static table, Abuja's row for a city it does not list
cityWeatherData(city) ==
    CASE city = "Lagos" -> Solar(550000, 65, 85)
      [] city = "Abuja" -> Solar(650000, 45, 70)
      [] city = "Kano" -> Solar(750000, 25, 45)
      [] city = "Port Harcourt" -> Solar(500000, 75, 90)
      [] city = "Ibadan" -> Solar(600000, 55, 75)
      [] city = "Kaduna" -> Solar(700000, 35, 55)
      [] city = "Jos" -> Solar(680000, 40, 60)
      [] OTHER -> Solar(650000, 45, 70)

\* the weather API (lines 276-283): a reading, a failed call, or a reply
\* without current conditions
WeatherReplies == {"reading", "error", "malformed"}

\* lines 271-308; weatherReply is the weather API's: a reading (here 40% cloud,
\* 60% humidity), or a failed call, after which the catch returns the defaults
getSolarData(location, weatherKey, weatherReply) ==
    IF weatherKey /\ location.lat # 0 /\ location.lon # 0
    THEN IF weatherReply = "reading"
         THEN Solar(calculateSunlightHours(location.lat), 40, 60)
         ELSE Solar(650000, 30, 70)
    ELSE cityWeatherData(location.city)

\* the service getSolarData calls, with the outcome of the call
SolarCalls(location, weatherKey, weatherReply) ==
    IF weatherKey /\ location.lat # 0 /\ location.lon # 0
    THEN {<<"weather", Outcome(weatherReply)>>} ELSE {}

(***************************************************************************)
(* getLocationData and getSolarData called directly, on arguments and      *)
(* service replies drawn from bounded sets                                 *)
(***************************************************************************)
DirectIps == {"127.0.0.1", "::1", "::ffff:127.0.0.1", "102.89.1.1"}
DirectBodyLocations ==
    {[given |-> FALSE, location |-> DefaultLocation],
     [given |-> TRUE, location |-> Location("Ibadan", "Oyo", "Nigeria", 0, 0)],
     [given |-> TRUE, location |-> Location("Enugu", "Enugu", "Nigeria", 64584, 75464)],
     [given |-> TRUE,
      location |-> [Location("Ikeja", "Lagos", "Nigeria", 66018, 33515) EXCEPT
                       !.fullAddress = "12 Allen Avenue, Ikeja"]]}

InitLocation ==
    /\ fcall \in [fn : {"getLocationData"}, bodyLocation : DirectBodyLocations,
                  user : {NoUser, "u1"}, storedReply : StoredReplies, ip : DirectIps,
                  ipReply : IpReplies, geoReply : GeoReplies, done : {FALSE},
                  ret : {DefaultLocation}]
    /\ Quiet

CallGetLocationData ==
    /\ fcall.fn = "getLocationData" /\ ~fcall.done
    /\ fcall' = [fcall EXCEPT
                    !.done = TRUE,
                    !.ret = getLocationData(fcall.bodyLocation, fcall.user,
                                            fcall.storedReply, fcall.ip, fcall.ipReply,
                                            fcall.geoReply)]
    /\ UNCHANGED <<req, frame, store, saved, started, served, clock>>

SpecLocation == InitLocation /\ [][CallGetLocationData]_vars

Cities == {"Lagos", "Abuja", "Kano", "Port Harcourt", "Ibadan", "Kaduna", "Jos", "Enugu"}
Latitudes == {0, 45000, 65244, 90765, 120022, 139000}

InitSolar ==
    /\ fcall \in [fn : {"getSolarData"},
                  location : {Location(c, "", "Nigeria", lat, IF lat = 0 THEN 0 ELSE 33792) :
                                 c \in Cities, lat \in Latitudes},
                  weatherKey : BOOLEAN, weatherReply : WeatherReplies,
                  done : {FALSE}, ret : {Solar(0, 0, 0)}]
    /\ Quiet

CallGetSolarData ==
    /\ fcall.fn = "getSolarData" /\ ~fcall.done
    /\ fcall' = [fcall EXCEPT
                    !.done = TRUE,
                    !.ret = getSolarData(fcall.location, fcall.weatherKey,
                                         fcall.weatherReply)]
    /\ UNCHANGED <<req, frame, store, saved, started, served, clock>>

SpecSolar == InitSolar /\ [][CallGetSolarData]_vars

(***************************************************************************)
(* Load Calculator (lines 512-563)                                         *)
(***************************************************************************)
Item(name, quantity, wattage, dayHours, nightHours) ==
    [nameOfItem |-> name, quantity |-> quantity, wattage |-> wattage,
     dayHours |-> dayHours, nightHours |-> nightHours]

Fridge == Item("Fridge", Num(1), Num(150), Num(12), Num(12))
Freezer == Item("Freezer", Num(1), Num(1000), Num(14), Num(12))
Pump == Item("Pump", Num(2), Num(1200), Num(6), Num(3))
Kettle == Item("Kettle", Num(1), Num(600), Num(1), Num(1))
Heater == Item("Heater", Num(1), Num(1000), Num(1), Num(1))
Fan == Item("Fan", Num(1), Undefined, Num(5), Num(5))
\* appliances used by night only (dayHours 0) and by day only (nightHours 0)
Lamp == Item("Lamp", Num(1), Num(1000), Num(0), Num(10))
Printer == Item("Printer", Num(1), Num(1000), Num(8), Num(0))
\* entries with a negative wattage and with negative nightHours: every field is
\* truthy
Credit == Item("Credit", Num(1), Num(-1000), Num(1), Num(1))
Shifted == Item("Shifted", Num(1), Num(1000), Num(2), Num(-2))
\* entries that lack one field
Unnamed == Item("", Num(1), Num(100), Num(5), Num(5))
Uncounted == Item("Radio", Undefined, Num(100), Num(5), Num(5))
NoDayHours == Item("Radio", Num(1), Num(100), Undefined, Num(5))
NoNightHours == Item("Radio", Num(1), Num(100), Num(5), Undefined)

\* req.body.items: absent, an array, or a single item that is no array, which
\* lines 522-524 wrap into an array of one (items is that array)
Bodies ==
    {[kind |-> "absent", items |-> <<>>],
     [kind |-> "object", items |-> <<Freezer>>]}
        \cup {[kind |-> "array", items |-> l] :
                 l \in {<<>>, <<Fridge>>, <<Pump, Kettle>>, <<Heater>>, <<Fan>>,
                        <<Lamp>>, <<Heater, Printer>>, <<Heater, Credit>>,
                        <<Shifted>>, <<Unnamed>>, <<Uncounted>>,
                        <<Heater, NoDayHours>>, <<NoNightHours>>}}

\* lines 515-541: the answer is 400
ItemsMissing(body) == body.kind = "absent" \/ (body.kind = "array" /\ body.items = <<>>)
ItemIncomplete_NameOnly(item) == item.nameOfItem = ""
ItemIncomplete(item) ==
    \/ item.nameOfItem = ""
    \/ ~Truthy(item.quantity) \/ ~Truthy(item.wattage)
    \/ ~Truthy(item.dayHours) \/ ~Truthy(item.nightHours)
SomeItemIncomplete(body) ==
    \E i \in 1..Len(body.items) : ItemIncomplete(body.items[i])

\* items.reduce((sum, item) => sum + ..., 0) over the terms of the items
SumOf(terms) ==
    LET Sum[i \in 0..Len(terms)] == IF i = 0 THEN 0 ELSE Sum[i - 1] + terms[i]
    IN  Sum[Len(terms)]

\* lines 548-559
TotalWattage(items) ==
    SumOf([i \in 1..Len(items) |->
              ToNumber(items[i].wattage) * ToNumber(items[i].quantity)])
TotalDayHours(items) ==
    SumOf([i \in 1..Len(items) |-> ToNumber(items[i].dayHours)])
TotalNightHours(items) ==
    SumOf([i \in 1..Len(items) |-> ToNumber(items[i].nightHours)])
\* The double nearest to n/1000 lies in [2^j, 2^(j+1)) for j = Exponent(n) and
\* is m / 2^(52-j), m the integer nearest to n * 2^(52-j) / 1000.
Exponent(n) ==
    LET AtLeast(j) == IF j >= 0 THEN n >= 1000 * 2^j ELSE n * 2^(0 - j) >= 1000
    IN  CHOOSE j \in -10..20 : AtLeast(j) /\ ~AtLeast(j + 1)

\* 2^k modulo 1000
Pow2Mod(k) ==
    LET P[i \in 0..k] == IF i = 0 THEN 1 ELSE (2 * P[i - 1]) % 1000
    IN  P[k]

\* the double n/1000 is below the quotient it stands for
QuotientBelow(n) ==
    LET rem == ((n % 1000) * Pow2Mod(52 - Exponent(n))) % 1000
    IN  rem > 0 /\ rem < 500

\* a DailyConsumption that drops the third decimal
ToFixed2_Truncates(n) == n \div 10

\* (n / 1000).toFixed(2) in hundredths, n a whole number: the hundredth nearest
\* to the double; when the third decimal of n/1000 is 5 the double decides
ToFixed2(n) ==
    IF n % 10 = 5 /\ QuotientBelow(n) THEN n \div 10 ELSE (n + 5) \div 10

\* lines 560-563: (totalWattage * hours / 1000).toFixed(2), in hundredths
DailyConsumption(items) ==
    ToFixed2(TotalWattage(items) * (TotalDayHours(items) + TotalNightHours(items)))


\* a classification that counts a ratio of exactly 1.5 as heavy
analyzeUsagePattern_AtLeast(dayHours, nightHours) ==
    IF 2 * dayHours >= 3 * nightHours THEN "Day-heavy"
    ELSE IF 2 * nightHours >= 3 * dayHours THEN "Night-heavy"
    ELSE "Balanced"

\* lines 19-40, of the hour totals; toFixed(1) percentages left out
analyzeUsagePattern(dayHours, nightHours) ==
    IF 2 * dayHours > 3 * nightHours THEN "Day-heavy"
    ELSE IF 2 * nightHours > 3 * dayHours THEN "Night-heavy"
    ELSE "Balanced"

\* lines 43-67
getClimateOptimizations(location, solarData) ==
    LET optimizations ==
               Issue(solarData.humidity > 80, "Anti-corrosion coating")
            \o Issue(solarData.cloudCover > 60, "Additional panels")
            \o Issue(location.city = "Lagos", "Marine-grade components")
            \o Issue(solarData.averageSunlightHours < 600000, "Enhanced battery storage")
    IN  IF optimizations = <<>> THEN <<"Standard configuration">> ELSE optimizations

(***************************************************************************)
(* The AI's reply (lines 686-725)                                          *)
(*                                                                         *)
(* A response text is a sequence of segments: "json" is one JSON object,   *)
(* "{note}" a piece of prose with braces in it, "prose" one without.  The  *)
(* object's content is the record rec: the recommendation with its         *)
(* pricing and components, either of which may be missing.                 *)
(***************************************************************************)
NoPricing ==
    [present |-> FALSE, subtotal |-> Undefined, vat |-> Undefined,
     totalAmount |-> Undefined]
Pricing(subtotal, vat, totalAmount) ==
    [present |-> TRUE, subtotal |-> subtotal, vat |-> vat, totalAmount |-> totalAmount]
Inverter(unit, watts) == [unit |-> unit, watts |-> watts]
Sizing(inverter, battery, panels) ==
    [inverter |-> inverter, battery |-> battery, panels |-> panels]
NoComponents == Sizing(Inverter("absent", 0), Undefined, Undefined)

Rec(pricing, components) ==
    [present |-> TRUE, hasComponents |-> TRUE, pricing |-> pricing,
     components |-> components]
NoRec ==
    [present |-> FALSE, hasComponents |-> FALSE, pricing |-> NoPricing,
     components |-> NoComponents]
RecWithoutComponents ==
    [present |-> TRUE, hasComponents |-> FALSE,
     pricing |-> Pricing(Num(2000000), Num(150000), Num(2150000)),
     components |-> NoComponents]

\* pricings that pass for one of the loads, and components that do
SoundPricings ==
    {Pricing(Num(300000), Num(22500), Num(322500)),
     Pricing(Num(2000000), Num(150000), Num(2150000)),
     Pricing(Num(5000000), Num(375000), Num(5375000)),
     Pricing(Num(3000000), Num(225000), Num(3225000))}
SoundComponents == Sizing(Inverter("kW", 1500), Num(4), Num(8))

AIPricings ==
    SoundPricings
        \cup {Pricing(Num(5000000), Num(100000), Num(30000000)),
              Pricing(Num(1600000), Num(120000), Num(1720000)),
              Pricing(Num(2000000), Undefined, Num(2150000)),
              Pricing(Undefined, Num(150000), Num(2150000)),
              Pricing(Num(2000000), Num(150000), Str),
              Pricing(Num(2000000), Num(150000), Undefined),
              Pricing(Num(2000000), Num(150000), Null),
              NoPricing}
AIComponents ==
    {SoundComponents,
     Sizing(Inverter("kW", 200), Num(2), Num(4)),
     Sizing(Inverter("kW", 5000), Num(6), Num(12)),
     Sizing(Inverter("kVA", 5000), Num(4), Num(8)),
     Sizing(Inverter("kW", 1000), Num(26), Num(40)),
     Sizing(Inverter("kW", 1500), Undefined, Str),
     Sizing(Inverter("absent", 0), Num(4), Num(8))}

AIRecs ==
    {Rec(p, c) : p \in SoundPricings, c \in AIComponents}
        \cup {Rec(p, SoundComponents) : p \in AIPricings}
        \cup {NoRec, RecWithoutComponents}

Texts ==
    {<<"json">>, <<"prose", "json", "prose">>, <<"json", "{note}">>,
     <<"{note}", "json">>, <<"prose">>}

\* the message of the error with which the AI service's client rejects
AIErrors ==
    {"401 authentication_error: invalid x-api-key", "529 overloaded_error: Overloaded"}

\* messages.create rejects; or resolves with no content block; or with a text
AIReplies ==
    {[kind |-> "throws", text |-> <<>>, rec |-> NoRec, message |-> m] : m \in AIErrors}
        \cup {[kind |-> "empty", text |-> <<>>, rec |-> NoRec, message |-> ""]}
        \cup {[kind |-> "text", text |-> <<"json">>, rec |-> r, message |-> ""] :
                 r \in AIRecs}
        \cup {[kind |-> "text", text |-> t, rec |-> Rec(p, SoundComponents),
                 message |-> ""] :
                 t \in Texts \ {<<"prose">>}, p \in SoundPricings}
        \cup {[kind |-> "text", text |-> <<"prose">>, rec |-> NoRec, message |-> ""]}

HasBrace(segment) == segment \in {"json", "{note}"}
\* line 706: responseText.match(/\{[\s\S]*\}/), greedy: from the first brace of
\* the text to its last one; line 707: the whole text when there is no match
JsonString(text) ==
    LET braces == {i \in 1..Len(text) : HasBrace(text[i])}
    IN  IF braces = {} THEN text
        ELSE SubSeq(text, CHOOSE i \in braces : \A j \in braces : i <= j,
                          CHOOSE i \in braces : \A j \in braces : j <= i)
\* line 709: JSON.parse succeeds on one JSON object and on nothing else here
Parses(jsonString) == jsonString = <<"json">>
\* lines 712-714
StructureOk(rec) == rec.present /\ rec.hasComponents

(***************************************************************************)
(* POST / (lines 508-848)                                                  *)
(*                                                                         *)
(* One request is handled at a time.  The handler awaits getLocationData,  *)
(* getSolarData, the AI call and, for an authenticated caller, the history *)
(* save; what runs between two awaits is one step.                         *)
(***************************************************************************)
MaxRequests == 2
MaxClock == 2

Ips == {"127.0.0.1", "102.89.1.1"}
\* req.body.location: absent, a location without coordinates, or one that
\* carries its full address
BodyLocations ==
    {[given |-> FALSE, location |-> DefaultLocation],
     [given |-> TRUE, location |-> Location("Ibadan", "Oyo", "Nigeria", 0, 0)],
     [given |-> TRUE,
      location |-> [Location("Ikeja", "Lagos", "Nigeria", 66018, 33515) EXCEPT
                       !.fullAddress = "12 Allen Avenue, Ikeja"]]}

NoBody == [kind |-> "none"]
Response(status, message, error, errors, canRetry) ==
    [status |-> status, success |-> FALSE, message |-> message, error |-> error,
     errors |-> errors, canRetry |-> canRetry, body |-> NoBody]
NoResponse == Response(0, "", "", <<>>, FALSE)

\* lines 835-847: the outer catch
Unavailable_NoRetry(errorMessage) ==
    Response(503, "Recommendation service is temporarily unavailable", errorMessage,
             <<>>, FALSE)
Unavailable(errorMessage) ==
    Response(503, "Recommendation service is temporarily unavailable", errorMessage,
             <<>>, TRUE)

\* lines 509-541: the request as the handler finds it, and the input
\* validation, which answers 400 at once.  calls is the log of the services the
\* handler has called for this request, each with its reply; storeAtStart the
\* stored histories when the request came in; history how the history save
\* ended (ghosts).
NewRequest(body, bodyLocation, bearer, ip, user) ==
    LET r == [pc |-> "location", body |-> body, bodyLocation |-> bodyLocation,
              bearer |-> bearer, ip |-> ip, user |-> user,
              items |-> body.items, location |-> DefaultLocation,
              solar |-> Solar(0, 0, 0), totalWattage |-> 0,
              totalDayHours |-> 0, totalNightHours |-> 0,
              dailyConsumption |-> 0, ai |-> [kind |-> "none"],
              res |-> NoResponse, sent |-> 0, calls |-> {}, aiCalls |-> 0,
              storeAtStart |-> store, history |-> "none"]
    IN  IF ItemsMissing(body)
        THEN [r EXCEPT !.pc = "done",
                 !.sent = @ + 1, !.res = Response(400, "Items are required", "", <<>>, FALSE)]
        ELSE IF SomeItemIncomplete(body)
        THEN [r EXCEPT !.pc = "done",
                 !.sent = @ + 1, !.res = Response(400, "Each item must have nameOfItem, quantity, wattage, dayHours, and nightHours",
                                  "", <<>>, FALSE)]
        ELSE r

Credentials == {NoUser, "u1"}

\* line 508: no middleware precedes the handler, so req.user is never set,
\* whatever credential the request carries
Receive ==
    /\ req.pc = "idle" /\ served < MaxRequests
    /\ \E body \in Bodies, bodyLocation \in BodyLocations,
          bearer \in Credentials, ip \in Ips :
          req' = NewRequest(body, bodyLocation, bearer, ip, NoUser)
    /\ served' = served + 1
    /\ UNCHANGED <<fcall, frame, store, saved, started, clock>>

\* line 544
GetLocation ==
    /\ req.pc = "location"
    /\ \E storedReply \in StoredReplies, ipReply \in IpReplies,
          geoReply \in GeoReplies :
          req' = [req EXCEPT
                     !.pc = "solar",
                     !.location = getLocationData(req.bodyLocation, req.user, storedReply,
                                                  req.ip, ipReply, geoReply),
                     !.calls = @ \cup LocationCalls(req.bodyLocation, req.user,
                                                   storedReply, req.ip, ipReply,
                                                   geoReply)]
    /\ UNCHANGED <<fcall, frame, store, saved, started, served, clock>>

\* a handler that lets a failed weather call reach the outer catch
GetSolar_Fails ==
    /\ req.pc = "solar"
    /\ \E weatherKey \in BOOLEAN, weatherReply \in WeatherReplies :
          LET calls == SolarCalls(req.location, weatherKey, weatherReply)
          IN  req' = IF <<"weather", "failed">> \in calls
                     THEN [req EXCEPT !.pc = "done",
                                      !.calls = @ \cup calls,
                                      !.sent = @ + 1, !.res = Unavailable("weather")]
                     ELSE [req EXCEPT
                              !.pc = "ai",
                              !.solar = getSolarData(req.location, weatherKey,
                                                     weatherReply),
                              !.calls = @ \cup calls,
                              !.totalWattage = TotalWattage(req.items),
                              !.totalDayHours = TotalDayHours(req.items),
                              !.totalNightHours = TotalNightHours(req.items),
                              !.dailyConsumption = DailyConsumption(req.items)]
    /\ UNCHANGED <<fcall, frame, store, saved, started, served, clock>>

\* lines 545-572: getSolarData, then the load figures
GetSolar ==
    /\ req.pc = "solar"
    /\ \E weatherKey \in BOOLEAN, weatherReply \in WeatherReplies :
          req' = [req EXCEPT
                     !.pc = "ai",
                     !.solar = getSolarData(req.location, weatherKey, weatherReply),
                     !.calls = @ \cup SolarCalls(req.location, weatherKey, weatherReply),
                     !.totalWattage = TotalWattage(req.items),
                     !.totalDayHours = TotalDayHours(req.items),
                     !.totalNightHours = TotalNightHours(req.items),
                     !.dailyConsumption = DailyConsumption(req.items)]
    /\ UNCHANGED <<fcall, frame, store, saved, started, served, clock>>

\* lines 686-696: the AI call resolves, or rejects into the outer catch
CallAI ==
    /\ req.pc = "ai"
    /\ \E reply \in AIReplies :
          req' = IF reply.kind = "throws"
                 THEN [req EXCEPT !.pc = "done", !.ai = reply,
                                  !.calls = @ \cup {<<"ai", "failed">>},
                                  !.aiCalls = @ + 1,
                                  !.sent = @ + 1, !.res = Unavailable(reply.message)]
                 ELSE [req EXCEPT !.pc = "parse", !.ai = reply,
                                  !.calls = @ \cup {<<"ai", "ok">>},
                                  !.aiCalls = @ + 1]
    /\ UNCHANGED <<fcall, frame, store, saved, started, served, clock>>

\* a handler that asks the AI once more for a reply it could not parse
ParseReply_Retries ==
    /\ req.pc = "parse"
    /\ req' =
          IF req.ai.kind = "empty"
          THEN [req EXCEPT !.pc = "done", !.sent = @ + 1, !.res = Unavailable("TypeError")]
          ELSE IF Parses(JsonString(req.ai.text)) /\ StructureOk(req.ai.rec)
          THEN [req EXCEPT !.pc = "pricing"]
          ELSE IF req.aiCalls < 2
          THEN [req EXCEPT !.pc = "ai"]
          ELSE [req EXCEPT !.pc = "done",
                   !.sent = @ + 1, !.res = Response(503, "Unable to generate recommendations at this time",
                                    "AI service parsing error", <<>>, TRUE)]
    /\ UNCHANGED <<fcall, frame, store, saved, started, served, clock>>

\* lines 698-725.  Without a content block, content[0].text throws inside the
\* try and again inside its catch (line 717), which lands in the outer catch.
ParseReply ==
    /\ req.pc = "parse"
    /\ req' =
          IF req.ai.kind = "empty"
          THEN [req EXCEPT !.pc = "done", !.sent = @ + 1, !.res = Unavailable("TypeError")]
          ELSE IF Parses(JsonString(req.ai.text)) /\ StructureOk(req.ai.rec)
          THEN [req EXCEPT !.pc = "pricing"]
          ELSE [req EXCEPT !.pc = "done",
                   !.sent = @ + 1, !.res = Response(503, "Unable to generate recommendations at this time",
                                    "AI service parsing error", <<>>, TRUE)]
    /\ UNCHANGED <<fcall, frame, store, saved, started, served, clock>>

\* a handler that sends the 422 of the pricing check and goes on
CheckPricing_GoesOn ==
    /\ req.pc = "pricing"
    /\ LET pricingValidation ==
               validatePricing(req.ai.rec.pricing, req.totalWattage, req.dailyConsumption)
       IN  req' =
              IF pricingValidation.threw
              THEN [req EXCEPT !.pc = "done", !.sent = @ + 1,
                               !.res = Unavailable("TypeError")]
              ELSE IF ~pricingValidation.valid
              THEN [req EXCEPT !.pc = "components", !.sent = @ + 1,
                       !.res = Response(422, "Generated recommendation has pricing issues",
                                        "", pricingValidation.issues, TRUE)]
              ELSE [req EXCEPT !.pc = "components"]
    /\ UNCHANGED <<fcall, frame, store, saved, started, served, clock>>

\* lines 728-744
CheckPricing ==
    /\ req.pc = "pricing"
    /\ LET pricingValidation ==
               validatePricing(req.ai.rec.pricing, req.totalWattage, req.dailyConsumption)
       IN  req' =
              IF pricingValidation.threw
              THEN [req EXCEPT !.pc = "done", !.sent = @ + 1, !.res = Unavailable("TypeError")]
              ELSE IF ~pricingValidation.valid
              THEN [req EXCEPT !.pc = "done",
                       !.sent = @ + 1, !.res = Response(422, "Generated recommendation has pricing issues",
                                        "", pricingValidation.issues, TRUE)]
              ELSE [req EXCEPT !.pc = "components"]
    /\ UNCHANGED <<fcall, frame, store, saved, started, served, clock>>

\* lines 747-766
CheckComponents ==
    /\ req.pc = "components"
    /\ LET componentValidation ==
               validateRecommendation(req.ai.rec.components, req.totalWattage,
                                      req.dailyConsumption)
       IN  req' =
              IF componentValidation.threw
              THEN [req EXCEPT !.pc = "done", !.sent = @ + 1, !.res = Unavailable("TypeError")]
              ELSE IF ~componentValidation.valid
              THEN [req EXCEPT !.pc = "done",
                       !.sent = @ + 1, !.res = Response(422, "Generated recommendation has component sizing issues",
                                        "", componentValidation.issues, TRUE)]
              ELSE [req EXCEPT !.pc = "answer"]
    /\ UNCHANGED <<fcall, frame, store, saved, started, served, clock>>

NaN == [t |-> "NaN", v |-> 0]
\* line 815: Math.round(totalAmount / totalWattage), both positive when numbers
PricePerWatt(totalAmount, totalWattage) ==
    IF IsNaN(totalAmount) THEN NaN
    ELSE Num((2 * ToNumber(totalAmount) + totalWattage) \div (2 * totalWattage))

\* line 771: req.user && req.user.id
IsAuthenticated_Always(user) == TRUE
IsAuthenticated(user) == user # NoUser

\* lines 793-819
Result(r, requestId, userId, tokenType) ==
    [status |-> 200, success |-> TRUE, message |-> "", error |-> "", errors |-> <<>>,
     canRetry |-> FALSE,
     body |->
        [kind |-> "result",
         customerInfo |-> [userId |-> userId, requestId |-> requestId],
         locationProfile |->
            [location |-> r.location, solarConditions |-> r.solar,
             climateOptimizations |-> getClimateOptimizations(r.location, r.solar)],
         powerRequirements |->
            [totalWattage |-> r.totalWattage, dailyConsumption |-> r.dailyConsumption,
             appliances |-> r.items,
             usagePattern |-> analyzeUsagePattern(r.totalDayHours, r.totalNightHours)],
         recommendation |-> r.ai.rec,
         metadata |->
            [tokenType |-> tokenType,
             validationsPassed |-> <<"pricing", "components">>,
             pricePerWatt |-> PricePerWatt(r.ai.rec.pricing.totalAmount,
                                           r.totalWattage)]]]

\* lines 770-834, up to the response of an anonymous caller or to the call of
\* saveRecommendationToHistory.  Date.now() (lines 780, 788) does not go back.
\* req.user.id of an absent req.user throws into the outer catch.
Answer ==
    /\ req.pc = "answer"
    /\ \E now \in clock..MaxClock :
          IF IsAuthenticated(req.user)
          THEN IF req.user = NoUser
               THEN /\ req' = [req EXCEPT !.pc = "done", !.sent = @ + 1, !.res = Unavailable("TypeError")]
                    /\ UNCHANGED <<frame, clock>>
               ELSE /\ req' = [req EXCEPT
                                  !.pc = "history",
                                  !.res = Result(req, RequestId(now, req.user), req.user,
                                                 "bearer")]
                    /\ Invoke("f1", req.user, HistoryEntry(RequestId(now, req.user)),
                              "route")
                    /\ clock' = now
          ELSE /\ req' = [req EXCEPT
                             !.pc = "done",
                             !.sent = @ + 1, !.res = Result(req, RequestId(now, "ANON"), NoUser,
                                            "anonymous")]
               /\ clock' = now
               /\ UNCHANGED frame
    /\ UNCHANGED <<fcall, store, saved, started, served>>

\* lines 822-834: the history save is over; its failure is logged, not raised.
\* (A step of the authenticated branch, which no request reaches while the
\* route has no middleware that sets req.user.)
AwaitHistory_Raises ==
    /\ req.pc = "history" /\ FrameOver("f1") /\ frame["f1"].via = "route"
    /\ req' = IF frame["f1"].pc = "threw"
              THEN [req EXCEPT !.pc = "done", !.history = frame["f1"].pc,
                               !.sent = @ + 1, !.res = Unavailable("history save failed")]
              ELSE [req EXCEPT !.pc = "done", !.history = frame["f1"].pc,
                               !.sent = @ + 1]
    /\ frame' = [frame EXCEPT !["f1"] = NoFrame]
    /\ UNCHANGED <<fcall, store, saved, started, served, clock>>
AwaitHistory_FailsAfterSave ==
    /\ req.pc = "history" /\ FrameOver("f1") /\ frame["f1"].via = "route"
    /\ req' = [req EXCEPT !.pc = "done", !.history = frame["f1"].pc,
                          !.sent = @ + 1, !.res = Unavailable("response failed")]
    /\ frame' = [frame EXCEPT !["f1"] = NoFrame]
    /\ UNCHANGED <<fcall, store, saved, started, served, clock>>
AwaitHistory ==
    /\ req.pc = "history" /\ FrameOver("f1") /\ frame["f1"].via = "route"
    /\ req' = [req EXCEPT !.pc = "done", !.history = frame["f1"].pc,
                          !.sent = @ + 1]
    /\ frame' = [frame EXCEPT !["f1"] = NoFrame]
    /\ UNCHANGED <<fcall, store, saved, started, served, clock>>

\* the response is sent and the handler has returned (lines 516, 531, 719, 735,
\* 757, 834, 838): the next request can be taken
Complete ==
    /\ req.pc = "done"
    /\ req' = NoRequest
    /\ UNCHANGED <<fcall, frame, store, saved, started, served, clock>>

Next ==
    \/ Receive \/ GetLocation \/ GetSolar \/ CallAI
    \/ ParseReply \/ CheckPricing \/ CheckComponents \/ Answer \/ Complete
Spec == Init /\ [][Next]_vars

(***************************************************************************)
(* The handler behind verifyToken, as GET /test and the address routes are *)
(* registered (lines 470, 918): the middleware lets a request through only *)
(* with a valid credential and sets req.user to its user                   *)
(* (src/middleware/verifyToken.js, lines 87-98).  The authenticated branch *)
(* of the handler and the history save run in this specification.          *)
(***************************************************************************)
ReceiveIdentified ==
    /\ req.pc = "idle" /\ served < MaxRequests
    /\ \E body \in Bodies, bodyLocation \in BodyLocations,
          bearer \in Credentials \ {NoUser}, ip \in Ips :
          req' = NewRequest(body, bodyLocation, bearer, ip, bearer)
    /\ served' = served + 1
    /\ UNCHANGED <<fcall, frame, store, saved, started, clock>>

NextIdent ==
    \/ ReceiveIdentified \/ GetLocation \/ GetSolar \/ CallAI
    \/ ParseReply \/ CheckPricing \/ CheckComponents \/ Answer
    \/ FindUser("f1") \/ SaveUser("f1") \/ AwaitHistory \/ Complete
SpecIdent == Init /\ [][NextIdent]_vars


(***************************************************************************)
(* Claims about the history recorder                                       *)
(***************************************************************************)
Entries(history) == {history[i] : i \in 1..Len(history)}

\* C1: when the saves of a user run one after another, the stored history has
\* length min(n, 10) after the n-th successful save and holds exactly the
\* most recent entries in the order they were appended; on overflow the
\* oldest entry is the one removed.
C1_BoundedFifo ==
    \A u \in Users :
        /\ Len(store[u]) = IF Len(saved[u]) < 10 THEN Len(saved[u]) ELSE 10
        /\ \A i \in 1..Len(store[u]) :
               store[u][i] = saved[u][Len(saved[u]) - Len(store[u]) + i]

\* a user whose twelfth save succeeded: two entries have been evicted
C1_Witness ==
    \E u \in Users :
        /\ Len(saved[u]) = 12 /\ Len(store[u]) = 10
        /\ store[u][1] = saved[u][3]
        /\ saved[u][1] \notin Entries(store[u])

BothSaved(f, g) ==
    /\ f # g
    /\ frame[f].pc = "saved" /\ frame[g].pc = "saved"
    /\ frame[f].userId = frame[g].userId

\* C2: when two saves of the same user overlap, with their findById, push/shift
\* and save steps interleaved in any order, then once both saves have completed
\* the user's history holds the entries of both and has at most 10 entries.
C2_NoLostUpdate ==
    \A f, g \in Frames :
        BothSaved(f, g) =>
            /\ frame[f].entry \in Entries(store[frame[f].userId])
            /\ frame[g].entry \in Entries(store[frame[f].userId])
            /\ Len(store[frame[f].userId]) <= 10

(***************************************************************************)
(* Claims about the two validators called directly                         *)
(***************************************************************************)
IsNumber(x) == x.t = "number"
NumericPricing(p) ==
    IsNumber(p.subtotal) /\ IsNumber(p.vat) /\ IsNumber(p.totalAmount)

\* the four rules as the specification lists them, on a numeric pricing
ListedPricingRules(p, w, dc) ==
    /\ 1000 * w <= p.totalAmount.v /\ p.totalAmount.v <= 3000 * w
    /\ dc > 3000 => 1200 * w <= p.totalAmount.v
    /\ Max(1500000, w * 1000) <= p.totalAmount.v /\ p.totalAmount.v <= 12000000
    /\ Abs(p.vat.v - ExpectedVAT(p.subtotal.v)) <= 1000
    /\ Abs(p.totalAmount.v - (p.subtotal.v + p.vat.v)) <= 1000

PricingExamples ==
    /\ (fcall.w = 3000 /\ fcall.pricing.totalAmount = Num(30000000))
          => /\ ~fcall.ret.valid
             /\ \E i \in DOMAIN fcall.ret.issues :
                   fcall.ret.issues[i] = "Price per watt too high"
    /\ (fcall.pricing.subtotal = Num(5000000) /\ fcall.pricing.vat = Num(100000))
          => /\ ~fcall.ret.valid
             /\ \E i \in DOMAIN fcall.ret.issues :
                   fcall.ret.issues[i] = "VAT calculation incorrect"

StatesRating(name) == name.unit \in {"kW", "kVA"}

\* C8, as stated: a sizing the check accepts has an inverter whose stated rating,
\* in kW or in kVA, lies between 1.2x and 2.0x totalWattage, and battery and
\* panel quantities within min(ceil(dc*1.5/2.5), 25) and
\* min(ceil(dc*1.8*1000/400), 30); 40 panels for 10 kWh/day are rejected.
C8_AcceptedIsSized ==
    (fcall.fn = "validateRecommendation" /\ fcall.done)
        => /\ (fcall.ret.valid /\ StatesRating(fcall.components.inverter))
                 => /\ 10 * fcall.components.inverter.watts >= 12 * fcall.w
                    /\ fcall.components.inverter.watts <= 2 * fcall.w
           /\ (fcall.ret.valid /\ IsNumber(fcall.components.battery))
                 => fcall.components.battery.v
                       <= Min(CeilDiv(3 * fcall.dc, 500), 25)
           /\ (fcall.ret.valid /\ IsNumber(fcall.components.panels))
                 => fcall.components.panels.v
                       <= Min(CeilDiv(9 * fcall.dc, 200), 30)
           /\ (fcall.dc = 1000 /\ fcall.components.panels = Num(40))
                 => ~fcall.ret.valid

(***************************************************************************)
(* Claims about POST /                                                     *)
(***************************************************************************)
Answered(status) == req.pc = "done" /\ req.res.status = status

PricingOf(r) == validatePricing(r.ai.rec.pricing, r.totalWattage, r.dailyConsumption)
SizingOf(r) ==
    validateRecommendation(r.ai.rec.components, r.totalWattage, r.dailyConsumption)

\* the AI's reply goes through the parse and both checks
Accepted(r) ==
    /\ r.ai.kind = "text"
    /\ Parses(JsonString(r.ai.text)) /\ StructureOk(r.ai.rec)
    /\ PricingOf(r).valid /\ SizingOf(r).valid

\* C3: a request answered 200 carries a recommendation whose subtotal, vat and
\* totalAmount are numbers with totalAmount/totalWattage in [1000, 3000], vat
\* within 1000 of round(subtotal*0.075), totalAmount within 1000 of
\* subtotal + vat, and whose battery and panel quantities are numbers within
\* their ceilings.
C3_ServedIsSound ==
    Answered(200) =>
        LET rec == req.res.body.recommendation
            w == req.totalWattage
            dc == req.dailyConsumption
        IN  /\ NumericPricing(rec.pricing)
            /\ 1000 * w <= rec.pricing.totalAmount.v
            /\ rec.pricing.totalAmount.v <= 3000 * w
            /\ Abs(rec.pricing.vat.v - ExpectedVAT(rec.pricing.subtotal.v)) <= 1000
            /\ Abs(rec.pricing.totalAmount.v
                     - (rec.pricing.subtotal.v + rec.pricing.vat.v)) <= 1000
            /\ IsNumber(rec.components.battery)
            /\ rec.components.battery.v <= Min(CeilDiv(3 * dc, 500), 25)
            /\ IsNumber(rec.components.panels)
            /\ rec.components.panels.v <= Min(CeilDiv(9 * dc, 200), 30)

\* C4: a request with a valid bearer credential for user u that is answered 200
\* has left exactly one entry in u's history, with the requestId of the response.
C4_HistoryAppended ==
    (Answered(200) /\ req.bearer \in Users) =>
        Cardinality({i \in DOMAIN store[req.bearer] :
                        store[req.bearer][i].requestId
                            = req.res.body.customerInfo.requestId}) = 1

\* C5: a request without an authenticated identity starts no invocation of the
\* history recorder and changes no stored history, and it is answered 200
\* whenever the AI's reply goes through the parse and both checks, which is
\* when any request is.
C5_AnonymousServed ==
    (req.pc # "idle" /\ req.bearer = NoUser) =>
        /\ \A f \in Frames : frame[f] = NoFrame
        /\ store = [u \in Users |-> <<>>] /\ started = [u \in Users |-> 0]
        /\ (req.pc = "done" /\ Accepted(req)) => req.res.status = 200
        /\ Answered(200) => /\ Accepted(req)
                            /\ req.res.body.customerInfo.userId = NoUser
                            /\ req.res.body.customerInfo.requestId.suffix = "ANON"

C5_Witness ==
    /\ Answered(200) /\ req.bearer = NoUser
    /\ req.res.body.customerInfo.requestId.suffix = "ANON"

FridgeRequest(r) ==
    /\ r.pc = "done" /\ r.body = [kind |-> "array", items |-> <<Fridge>>]
    /\ ~r.bodyLocation.given /\ Loopback(r.ip)

\* recommendations priced as the scenario asks: vat = round(subtotal*0.075) and
\* total = subtotal + vat, for subtotals up to 12,000,000 in steps of 25,000
ScenarioPricings ==
    {Pricing(Num(25000 * k), Num(ExpectedVAT(25000 * k)),
             Num(25000 * k + ExpectedVAT(25000 * k))) : k \in 0..480}

\* C6: the Fridge request (1 x 150 W, 12 h + 12 h, no location override,
\* loopback address) has totalWattage 150, dailyConsumption 3.60 kWh and the
\* default Lagos location, and some pricing with a price per watt in
\* [1000, 3000] and vat = round(subtotal*0.075) passes the pricing check for it.
C6_FridgeScenario ==
    FridgeRequest(req) =>
        /\ req.totalWattage = 150 /\ req.dailyConsumption = 360
        /\ req.location.city = "Lagos" /\ req.location.lat = 65244
        /\ req.location.lon = 33792
        /\ \E p \in ScenarioPricings :
              /\ 1000 * 150 <= p.totalAmount.v /\ p.totalAmount.v <= 3000 * 150
              /\ validatePricing(p, req.totalWattage, req.dailyConsumption).valid

RuleTags(r) ==
    IF r.res.message = "Generated recommendation has pricing issues"
    THEN LET p == r.ai.rec.pricing
             w == r.totalWattage
             dc == r.dailyConsumption
         IN  {<<PricePerWattTooHigh(p, w), "Price per watt too high">>,
              <<PricePerWattTooLow(p, w), "Price per watt too low">>,
              <<PriceLowForConsumption(p, w, dc), "System price may be too low">>,
              <<CostVeryHigh(p), "System cost very high">>,
              <<CostSeemsTooLow(p, dc), "System cost seems too low">>,
              <<CostTooLow(p, w), "System cost too low">>,
              <<VatIncorrect(p), "VAT calculation incorrect">>,
              <<TotalIncorrect(p), "Total amount calculation incorrect">>}
    ELSE LET c == r.ai.rec.components
             w == r.totalWattage
             dc == r.dailyConsumption
         IN  {<<InverterUndersized(c.inverter, w), "Inverter undersized">>,
              <<InverterOversized(c.inverter, w) /\ ~InverterUndersized(c.inverter, w),
                "Inverter oversized">>,
              <<TooManyBatteries(c, dc), "Too many batteries">>,
              <<ExcessiveBatteries(c), "Excessive battery count">>,
              <<TooManyPanels(c, dc), "Too many panels">>,
              <<ExcessivePanels(c), "Excessive panel count">>}

\* C9: the errors of a 422 response hold one entry for each rule the rejected
\* pricing (or sizing) violates and none for a rule it satisfies, however many
\* rules are violated; and a request whose pricing or sizing violates a rule,
\* the check returning, is answered 422.
C9_AllIssuesReported ==
    /\ Answered(422) =>
          /\ \A rt \in RuleTags(req) :
                rt[1] <=> Cardinality({i \in DOMAIN req.res.errors :
                                          req.res.errors[i] = rt[2]}) = 1
          /\ Len(req.res.errors) = Cardinality({rt \in RuleTags(req) : rt[1]})
          /\ req.res.errors # <<>>
    /\ (req.pc = "done" /\ req.ai.kind = "text"
          /\ Parses(JsonString(req.ai.text)) /\ StructureOk(req.ai.rec))
          => /\ (~PricingOf(req).threw /\ ~PricingOf(req).valid)
                   => /\ req.res.status = 422
                      /\ req.res.errors = PricingOf(req).issues
             /\ (PricingOf(req).valid /\ ~SizingOf(req).threw /\ ~SizingOf(req).valid)
                   => /\ req.res.status = 422
                      /\ req.res.errors = SizingOf(req).issues

\* a pricing too high per watt, with wrong VAT and a wrong total
C9_Witness ==
    /\ Answered(422) /\ Len(req.res.errors) >= 3
    /\ \E i, j, k \in DOMAIN req.res.errors :
          /\ req.res.errors[i] = "Price per watt too high"
          /\ req.res.errors[j] = "VAT calculation incorrect"
          /\ req.res.errors[k] = "Total amount calculation incorrect"

AIFailed(r) ==
    /\ r.ai.kind # "none"
    /\ ~Accepted(r)

\* C10: a request whose AI call throws, whose text holds no parseable JSON,
\* whose recommendation or components are absent, or whose pricing or sizing
\* check fails, is answered 422 or 503 with success false and canRetry true;
\* after a validator failure the errors are the validator's issues.
C10_FailuresAreRetryable ==
    (req.pc = "done" /\ AIFailed(req)) =>
        /\ req.res.status \in {422, 503}
        /\ ~req.res.success /\ req.res.canRetry
        /\ req.res.status = 422 =>
              /\ req.res.errors # <<>>
              /\ req.res.errors \in {PricingOf(req).issues, SizingOf(req).issues}
        /\ (req.ai.kind = "text" /\ Parses(JsonString(req.ai.text))
              /\ StructureOk(req.ai.rec) /\ ~PricingOf(req).threw
              /\ (PricingOf(req).valid => ~SizingOf(req).threw))
              => req.res.status = 422

\* an AI call that throws, answered by the outer catch
C10_Witness ==
    /\ req.pc = "done" /\ req.ai.kind = "throws"
    /\ req.res.status = 503 /\ req.res.canRetry /\ ~req.res.success

(***************************************************************************)
(* Claims about the input validation                                       *)
(***************************************************************************)
InRange(x, lo, hi) == IsNumber(x) /\ lo <= x.v /\ x.v <= hi

\* an entry of the ApplianceEntry model
ApplianceEntry(item) ==
    /\ item.nameOfItem # ""
    /\ IsNumber(item.quantity) /\ item.quantity.v >= 1
    /\ IsNumber(item.wattage) /\ item.wattage.v > 0
    /\ InRange(item.dayHours, 0, 24) /\ InRange(item.nightHours, 0, 24)

\* C11: a request whose items is a non-empty list of entries of the
\* ApplianceEntry model (hours anywhere in 0..24, 0 included) is not answered 400.
C11_ModelEntriesPass ==
    (req.pc # "idle" /\ req.body.kind = "array" /\ req.items # <<>>
        /\ \A i \in DOMAIN req.items : ApplianceEntry(req.items[i]))
        => req.res.status # 400

Lacks(item) ==
    \/ item.nameOfItem = ""
    \/ \E x \in {item.quantity, item.wattage, item.dayHours, item.nightHours} :
          x = Undefined

\* C12: a request whose items is absent or empty, or holds an entry lacking one
\* of the five fields, is answered 400 with success false in its first step: no
\* service has been called for it, no history invocation started and no stored
\* history changed.
C12_RejectedAtOnce ==
    (req.pc # "idle"
        /\ \/ req.body.kind = "absent" \/ req.body.items = <<>>
           \/ \E i \in DOMAIN req.body.items : Lacks(req.body.items[i]))
        => /\ req.pc = "done"
           /\ req.res.status = 400 /\ ~req.res.success
           /\ req.calls = {} /\ req.ai.kind = "none"
           /\ \A f \in Frames : frame[f] = NoFrame
           /\ store = req.storeAtStart

\* the second entry of the list lacks its dayHours
C12_Witness ==
    /\ req.pc = "done" /\ req.res.status = 400
    /\ req.body.items = <<Heater, NoDayHours>>
    /\ req.calls = {}

(***************************************************************************)
(* Claims about the Location Resolver and the Environmental Data Provider  *)
(***************************************************************************)
Core(location) ==
    <<location.country, location.region, location.city, location.lat, location.lon>>

UsesStored(call) ==
    ~call.bodyLocation.given /\ call.user # NoUser /\ call.storedReply = "stored"

\* C13: getLocationData takes the body location if there is one, else the
\* stored address with coordinates of the authenticated user, else the IP
\* geolocation of a non-loopback address when it succeeds, else the default.
\* Country, region, city, lat and lon of a body location come back unchanged;
\* a stored address comes back as it is, with addressSource user_stored; with
\* none of the two and a loopback IP the result is Lagos, 6.5244, 3.3792,
\* whatever the reverse geocoding replies.
C13_SourceOrder ==
    (fcall.fn = "getLocationData" /\ fcall.done) =>
        /\ fcall.bodyLocation.given
              => Core(fcall.ret) = Core(fcall.bodyLocation.location)
        /\ UsesStored(fcall)
              => fcall.ret = StoredLocation /\ fcall.ret.addressSource = "user_stored"
        /\ (~fcall.bodyLocation.given /\ ~UsesStored(fcall) /\ Loopback(fcall.ip))
              => /\ fcall.ret.city = "Lagos"
                 /\ fcall.ret.lat = 65244 /\ fcall.ret.lon = 33792
        /\ (~fcall.bodyLocation.given /\ ~UsesStored(fcall) /\ ~Loopback(fcall.ip))
              => Core(fcall.ret) = IF fcall.ipReply = "success"
                                   THEN Core(IpLocation) ELSE Core(DefaultLocation)

\* the default on a loopback address, enriched by a reverse geocoding that
\* names a place
C13_Witness ==
    /\ fcall.fn = "getLocationData" /\ fcall.done
    /\ ~fcall.bodyLocation.given /\ fcall.user = NoUser /\ fcall.ip = "::1"
    /\ fcall.geoReply = "address"
    /\ fcall.ret.addressSource = "nominatim" /\ fcall.ret.city = "Lagos"

\* C14: every location getLocationData returns has a non-empty fullAddress, an
\* addressSource among user_stored, nominatim, estimated, ip and an
\* addressAccuracy among exact, approximate, city-level.
C14_Resolved ==
    (fcall.fn = "getLocationData" /\ fcall.done) =>
        /\ fcall.ret.fullAddress # ""
        /\ fcall.ret.addressSource \in {"user_stored", "nominatim", "estimated", "ip"}
        /\ fcall.ret.addressAccuracy \in {"exact", "approximate", "city-level"}

(***************************************************************************)
(* Claims about failures of the services behind POST /                     *)
(***************************************************************************)
LookupServices == {"userStore", "ip-api", "nominatim", "weather"}

Called(service) == \E c \in req.calls : c[1] = service

\* C15: whatever the stored-address lookup, the IP geolocation, the reverse
\* geocoding and the weather call do (fail or succeed, in any combination), a
\* request with valid items gets no response before the AI request has been
\* made, the steps that lead to the AI request can always be taken, and the only
\* response sent without an AI request is the 400 of input validation, which
\* called none of the four services.
C15_LookupFailuresAbsorbed ==
    /\ req.pc \in {"location", "solar", "ai"} => req.res = NoResponse
    /\ req.pc = "location" => ENABLED GetLocation
    /\ req.pc = "solar" => ENABLED GetSolar
    /\ req.pc = "ai" => ENABLED CallAI
    /\ (req.pc # "idle" /\ req.res # NoResponse /\ ~Called("ai"))
          => req.res.status = 400 /\ req.calls = {}

\* all four lookups failed and the AI request was made
C15_Witness ==
    /\ req.pc = "parse"
    /\ \A service \in LookupServices : <<service, "failed">> \in req.calls
    /\ <<"ai", "ok">> \in req.calls

\* C16: the solar data falls back from the live reading to the static table:
\* when the weather API key is configured, the location has coordinates and the
\* live call fails, getSolarData returns the static-table entry for the
\* location's city (Abuja's entry for a city not in the table), and the
\* defaults 6.5 h, 30 %, 70 % are returned only where they are that entry.
C16_StaticAfterLiveFailure ==
    (fcall.fn = "getSolarData" /\ fcall.done
        /\ fcall.weatherKey /\ fcall.location.lat # 0 /\ fcall.location.lon # 0
        /\ fcall.weatherReply # "reading")
        => fcall.ret = cityWeatherData(fcall.location.city)

(***************************************************************************)
(* Claims about the history recording of POST /                            *)
(***************************************************************************)
\* C17: when the history recording of an identified caller's request is over,
\* whether the profile was saved, was not found, or its load or save failed,
\* the request is answered 200 with success true, the recommendation the AI
\* gave and the result built before the recording, and no error field.
C17_HistoryFailureHidden ==
    (req.pc = "done" /\ req.history # "none")
        => /\ req.res.status = 200 /\ req.res.success
           /\ req.res.error = "" /\ req.res.errors = <<>> /\ req.res.message = ""
           /\ req.res.body.recommendation = req.ai.rec
           /\ req.res = Result(req, req.res.body.customerInfo.requestId, req.user,
                               "bearer")

\* the load or the save of the profile failed, and the request was answered 200
C17_Witness ==
    /\ req.pc = "done" /\ req.history = "threw"
    /\ req.res.status = 200
    /\ store = req.storeAtStart

\* The handler's own steps are taken whenever they can be: Node runs a ready
\* continuation.  Nothing makes the user store answer: a findById or a save may
\* stay pending for ever.
HandlerStep ==
    \/ GetLocation \/ GetSolar \/ CallAI \/ ParseReply \/ CheckPricing
    \/ CheckComponents \/ Answer \/ AwaitHistory \/ Complete

SpecIdentFair == SpecIdent /\ WF_vars(HandlerStep)

\* C18: the history recording does not hold the response back: once the
\* handler has started the recording, the response is eventually sent, even if
\* the user store never completes the load or the save.
C18_ResponseNotBlocked == (req.pc = "history") ~> (req.pc = "done")

\* C19: a request that is answered with a status other than 200 (400, 422 or
\* 503) has started no history recording and leaves every user's stored
\* history as it was when the request arrived.
C19_ErrorsLeaveHistory ==
    (req.pc = "done" /\ req.res.status # 200)
        => /\ req.res.status \in {400, 422, 503}
           /\ req.history = "none"
           /\ \A u \in Users : store[u] = req.storeAtStart[u]

\* a rejected recommendation of a caller who already has a stored history
C19_Witness ==
    /\ req.pc = "done" /\ req.res.status = 422
    /\ req.user = "u1" /\ store["u1"] # <<>>

(***************************************************************************)
(* Claims about the error responses of POST /                              *)
(***************************************************************************)
\* C20: no response with a 4xx or 5xx status carries text of an upstream
\* service's error: its message and error fields are texts fixed in the
\* handler, none of them the message of the AI service's error.
C20_NoUpstreamText ==
    (req.pc = "done" /\ req.res.status >= 400)
        => /\ req.res.message \notin AIErrors
           /\ req.res.error \notin AIErrors

(***************************************************************************)
(* Requests of identified callers in flight together, from the building of *)
(* customerInfo.requestId on (lines 774-834): each handler reads           *)
(* Date.now(), then awaits saveRecommendationToHistory in its own frame    *)
(***************************************************************************)
\* lines 781, 824: the requestId is built from the clock's millisecond and the
\* end of the user's id, and the recording is called with it
StampRequest(f) ==
    /\ frame[f].pc = "idle" /\ served < MaxRequests
    /\ \E u \in Users, now \in clock..MaxClock :
          /\ Invoke(f, u, HistoryEntry(RequestId(now, u)), "route")
          /\ clock' = now
    /\ served' = served + 1
    /\ UNCHANGED <<fcall, req, store, saved, started>>

\* lines 825-834: the recording is over, the response is sent
Respond(f) ==
    /\ FrameOver(f) /\ frame[f].via = "route"
    /\ frame' = [frame EXCEPT ![f] = NoFrame]
    /\ UNCHANGED <<fcall, req, store, saved, started, served, clock>>

NextStamp ==
    \E f \in Frames : StampRequest(f) \/ FindUser(f) \/ SaveUser(f) \/ Respond(f)
SpecStamp == Init /\ [][NextStamp]_vars

RequestIds(entries) == [i \in DOMAIN entries |-> entries[i].requestId]

Distinct(ids) == \A i, j \in DOMAIN ids : i # j => ids[i] # ids[j]

\* C21: the requestIds in one user's stored history are pairwise distinct, also
\* when two requests of that user build their requestId in the same millisecond.
C21_RequestIdsDistinct == \A u \in Users : Distinct(RequestIds(store[u]))

(***************************************************************************)
(* The load calculation (lines 547-563) run directly, on appliance lists   *)
(* that pass the input validation, drawn from bounded sets                 *)
(***************************************************************************)
MaxItems == 2

LoadWattages == {7, 150, 201, 203, 1000}
LoadQuantities == {1, 3}
LoadDayHours == {1, 3, 12}
LoadNightHours == {2, 12}

LoadEntries ==
    {Item("Appliance", Num(q), Num(w), Num(d), Num(n)) :
        q \in LoadQuantities, w \in LoadWattages, d \in LoadDayHours,
        n \in LoadNightHours}

LoadLists == UNION {[1..k -> LoadEntries] : k \in 1..MaxItems}

\* lines 548-563
Load(items) ==
    [totalWattage |-> TotalWattage(items), totalDayHours |-> TotalDayHours(items),
     totalNightHours |-> TotalNightHours(items),
     dailyConsumption |-> DailyConsumption(items)]

NoLoad == [totalWattage |-> 0, totalDayHours |-> 0, totalNightHours |-> 0,
           dailyConsumption |-> 0]

InitLoad ==
    /\ fcall \in [fn : {"load"}, items : LoadLists, runs : {0}, ret : {NoLoad},
                  first : {NoLoad}]
    /\ Quiet

\* the calculation, run on the list and run again on the same list
CallLoad ==
    /\ fcall.fn = "load" /\ fcall.runs < 2
    /\ fcall' = [fcall EXCEPT !.runs = @ + 1, !.ret = Load(fcall.items),
                              !.first = IF fcall.runs = 0 THEN Load(fcall.items)
                                        ELSE @]
    /\ UNCHANGED <<req, frame, store, saved, started, served, clock>>

SpecLoad == InitLoad /\ [][CallLoad]_vars

(***************************************************************************)
(* Claims about the Load Calculator                                        *)
(***************************************************************************)
\* the sum of f over the indices in S
RECURSIVE Sigma(_, _)
Sigma(f, S) ==
    IF S = {} THEN 0
    ELSE LET i == CHOOSE i \in S : TRUE IN f[i] + Sigma(f, S \ {i})

\* h hundredths is a value of two decimals nearest to n thousandths
Nearest2(h, n) == 10 * h - n <= 5 /\ n - 10 * h <= 5

MaxHours == 12

InitPattern ==
    /\ fcall \in [fn : {"analyzeUsagePattern"}, dayHours : 0..MaxHours,
                  nightHours : 0..MaxHours, done : {FALSE}, ret : {""}]
    /\ Quiet

CallAnalyzeUsagePattern ==
    /\ fcall.fn = "analyzeUsagePattern" /\ ~fcall.done
    /\ fcall' = [fcall EXCEPT
                    !.done = TRUE,
                    !.ret = analyzeUsagePattern(fcall.dayHours, fcall.nightHours)]
    /\ UNCHANGED <<req, frame, store, saved, started, served, clock>>

SpecPattern == InitPattern /\ [][CallAnalyzeUsagePattern]_vars

\* C23: the usage pattern is Day-heavy exactly when totalDayHours is more than
\* 1.5 times totalNightHours, Night-heavy exactly when totalNightHours is more
\* than 1.5 times totalDayHours, and Balanced otherwise; the first two never
\* hold together; (10,2), (2,10) and (5,5) give Day-heavy, Night-heavy and
\* Balanced.
C23_UsagePattern ==
    (fcall.fn = "analyzeUsagePattern" /\ fcall.done)
        => LET d == fcall.dayHours
               n == fcall.nightHours
               dayHeavy == 10 * d > 15 * n
               nightHeavy == 10 * n > 15 * d
           IN  /\ ~(dayHeavy /\ nightHeavy)
               /\ fcall.ret \in {"Day-heavy", "Night-heavy", "Balanced"}
               /\ fcall.ret = "Day-heavy" <=> dayHeavy
               /\ fcall.ret = "Night-heavy" <=> nightHeavy
               /\ fcall.ret = "Balanced" <=> ~dayHeavy /\ ~nightHeavy
               /\ (d = 10 /\ n = 2) => fcall.ret = "Day-heavy"
               /\ (d = 2 /\ n = 10) => fcall.ret = "Night-heavy"
               /\ (d = 5 /\ n = 5) => fcall.ret = "Balanced"

\* a ratio of exactly 1.5 is Balanced
C23_Witness ==
    /\ fcall.fn = "analyzeUsagePattern" /\ fcall.done
    /\ fcall.dayHours = 3 /\ fcall.nightHours = 2
    /\ fcall.ret = "Balanced"

(***************************************************************************)
(* Claims about the AI request and the parsing of its reply                *)
(***************************************************************************)
\* prose without braces, then one JSON object, then anything
ObjectAfterProse(text) ==
    \E i \in DOMAIN text :
        text[i] = "json" /\ \A j \in 1..(i - 1) : text[j] = "prose"

ParseFailed(res) == res.status = 503 /\ res.error = "AI service parsing error"

\* C24: when the AI's text is optional prose, one well-formed JSON object that
\* holds recommendation.components, and optional trailing prose that may itself
\* hold braces, the parsing takes that first object: the request is not
\* answered with the parse failure.
C24_FirstObjectExtracted ==
    (req.pc = "done" /\ req.ai.kind = "text"
        /\ ObjectAfterProse(req.ai.text) /\ StructureOk(req.ai.rec))
        => ~ParseFailed(req.res)

\* C25: a request makes at most one generation request to the AI: none when
\* it is answered 400, exactly one once the input validation has passed and the
\* pipeline is beyond the AI call, and no further one after a parse failure or
\* a rejection by a validator.
C25_OneGeneration ==
    req.pc # "idle"
        => /\ req.aiCalls <= 1
           /\ req.pc \in {"location", "solar", "ai"} => req.aiCalls = 0
           /\ req.pc \in {"parse", "pricing", "components", "answer", "history"}
                 => req.aiCalls = 1
           /\ req.pc = "done"
                 => req.aiCalls = (IF req.res.status = 400 THEN 0 ELSE 1)

\* a reply that could not be parsed, answered after the one call
C25_Witness ==
    /\ req.pc = "done" /\ ParseFailed(req.res)
    /\ req.aiCalls = 1

(***************************************************************************)
(* The sizing guidance of the prompt (lines 565-572, 615-651), computed    *)
(* from the load of appliance lists that pass the input validation         *)
(***************************************************************************)
\* lines 642, 648: the caps of the template's quantities; line 619: the
\* inverter capacity the prompt tells the AI never to exceed, in kW
MaxSuggestedBatteries == 16
MaxSuggestedPanels == 20
MaxInverterKW == 15

\* line 566: Math.ceil(totalWattage * 1.3 / 1000), in kW
recommendedInverterCapacity(w) == CeilDiv(13 * w, 10000)

\* lines 567-569: Math.ceil(parseFloat(dailyConsumption) * 1.2 / 3.5)
recommendedBatteryCount(dc) == CeilDiv(12 * dc, 3500)

\* The consumptions up to 72.00 kWh, in hundredths, for which the double
\* dailyConsumption * 1.5 * 1000 / 450 comes out just above the whole number it
\* stands for (2.10 kWh gives 7.000000000000001), so that Math.ceil adds one.
PanelQuotientAbove ==
    {210, 270, 420, 540, 690, 840, 930, 990, 1080, 1230, 1380, 1530, 1680,
     1710, 1830, 1860, 1980, 2010, 2130, 2160, 2310, 2460, 2610, 2760,
     2910, 3060, 3210, 3270, 3360, 3420, 3510, 3570, 3660, 3720, 3810,
     3870, 3960, 4020, 4110, 4170, 4260, 4320, 4470, 4620, 4770, 4920,
     5070, 5220, 5370, 5520, 5670, 5820, 5970, 6120, 6270, 6420, 6540,
     6570, 6690, 6720, 6840, 6870, 6990, 7020, 7140, 7170}

\* lines 570-572: Math.ceil(parseFloat(dailyConsumption) * 1.5 * 1000 / 450)
recommendedPanelCount(dc) ==
    CeilDiv(dc, 30) + (IF dc \in PanelQuotientAbove THEN 1 ELSE 0)

\* lines 615-619 and 640-651: the figures written into the prompt
Guidance(w, dc) ==
    [inverterCapacity |-> recommendedInverterCapacity(w),
     batteryBank |-> recommendedBatteryCount(dc),
     solarPanels |-> recommendedPanelCount(dc),
     batteryQuantity |-> Min(recommendedBatteryCount(dc), MaxSuggestedBatteries),
     panelQuantity |-> Min(recommendedPanelCount(dc), MaxSuggestedPanels)]

\* a recommendation that takes the inverter capacity of line 616 and the
\* quantities of lines 642 and 648 as they stand
Guided(g) ==
    Sizing(Inverter("kW", 1000 * g.inverterCapacity), Num(g.batteryQuantity),
           Num(g.panelQuantity))

GuidedWattages == {150, 350, 700, 1000, 2000, 4000, 9000, 12000}
GuidedHours == {1, 2, 3}
\* lists of one appliance, of at most 72.00 kWh a day
GuidedLists ==
    {<<Item("Appliance", Num(1), Num(w), Num(d), Num(n))>> :
        w \in GuidedWattages, d \in GuidedHours, n \in GuidedHours}

NoGuidance == Guidance(0, 0)

InitGuidance ==
    /\ fcall \in [fn : {"guidance"}, items : GuidedLists, done : {FALSE},
                  load : {NoLoad}, prompt : {NoGuidance}, ret : {Threw}]
    /\ Quiet

\* lines 547-572, the prompt, and validateRecommendation (lines 747-751) on the
\* recommendation that follows the prompt
CallGuidance ==
    /\ fcall.fn = "guidance" /\ ~fcall.done
    /\ LET load == Load(fcall.items)
           g == Guidance(load.totalWattage, load.dailyConsumption)
       IN  fcall' = [fcall EXCEPT
                        !.done = TRUE, !.load = load, !.prompt = g,
                        !.ret = validateRecommendation(Guided(g), load.totalWattage,
                                                       load.dailyConsumption)]
    /\ UNCHANGED <<req, frame, store, saved, started, served, clock>>

SpecGuidance == InitGuidance /\ [][CallGuidance]_vars

(***************************************************************************)
(* Claims about the sizing guidance                                        *)
(***************************************************************************)
\* C26: every sizing figure written into the prompt respects the caps: each
\* battery count is at most 16, each panel count at most 20, and the
\* recommended inverter capacity at most 15 kW.
C26_GuidanceWithinCaps ==
    (fcall.fn = "guidance" /\ fcall.done)
        => /\ fcall.prompt.batteryBank <= MaxSuggestedBatteries
           /\ fcall.prompt.batteryQuantity <= MaxSuggestedBatteries
           /\ fcall.prompt.solarPanels <= MaxSuggestedPanels
           /\ fcall.prompt.panelQuantity <= MaxSuggestedPanels
           /\ fcall.prompt.inverterCapacity <= MaxInverterKW

\* C28: a recommendation that follows the prompt's guidance exactly (the
\* recommended inverter capacity, the battery and panel quantities of the
\* template) passes the component sizing check.
C28_GuidedPasses ==
    (fcall.fn = "guidance" /\ fcall.done) => fcall.ret.valid

(***************************************************************************)
(* Claims about the pricing rules as a whole                               *)
(***************************************************************************)
\* Every rule on totalAmount is a lower bound or an upper bound, so if some
\* totalAmount passes them all for a load, the largest lower bound does.
LowerBounds(w) ==
    {MinPricePerWatt * w, QualityPricePerWatt * w, MinimumSystemCost, LowCostThreshold}

\* the pricing of a total: subtotal = total / 1.075, vat the rest
PricingOfTotal(total) ==
    LET subtotal == (40 * total) \div 43
    IN  Pricing(Num(subtotal), Num(total - subtotal), Num(total))

Satisfiable(w, dc) ==
    \E total \in LowerBounds(w) : validatePricing(PricingOfTotal(total), w, dc).valid

\* C27: for every load that passes the input validation, with totalWattage from
\* 1 W to 12,000 W, there is a pricing that validatePricing accepts.
C27_RulesSatisfiable ==
    (fcall.fn = "load" /\ fcall.runs > 0
        /\ fcall.ret.totalWattage >= 1 /\ fcall.ret.totalWattage <= 12000)
        => Satisfiable(fcall.ret.totalWattage, fcall.ret.dailyConsumption)

(***************************************************************************)
(* Claims about the responses of POST /                                    *)
(***************************************************************************)
\* C29: a request is answered once: no response has been sent while the
\* handler is still at work, exactly one has been sent when it is over, with
\* status 400, 503, 422 or 200, and a handler still at work can always take a
\* step once the call it awaits has settled.
C29_OneResponse ==
    req.pc # "idle"
        => /\ req.sent <= 1
           /\ req.pc # "done" => req.sent = 0
           /\ req.pc = "done"
                 => req.sent = 1 /\ req.res.status \in {200, 400, 422, 503}
           /\ req.pc = "history"
                 => ENABLED (FindUser("f1") \/ SaveUser("f1") \/ AwaitHistory)
           /\ req.pc \notin {"done", "history"} => ENABLED HandlerStep

\* the 200 sent after a recording that failed
C29_Witness ==
    /\ req.pc = "done" /\ req.sent = 1
    /\ req.res.status = 200 /\ req.history = "threw"
    /\ req.user = "u1"

\* C30: for a request that has passed the input validation, totalWattage and
\* totalDayHours + totalNightHours are above zero when the pipeline is at the
\* validators and at the assembly of the response.
C30_DivisorsPositive ==
    req.pc \in {"pricing", "components", "answer", "history"}
        => /\ req.totalWattage > 0
           /\ req.totalDayHours + req.totalNightHours > 0

====
